---- MODULE Spec2Model ----
(***************************************************************************)
(* Credit Card Bill Processor (streamlit_app.py): the extraction and       *)
(* normalization pipeline behind main().                                   *)
(*                                                                         *)
(* Text is modelled character by character: a Python str is a sequence of  *)
(* one-character strings, so that clean_text, the regular expressions and  *)
(* the pandas conversions are computed the way the code computes them.     *)
(* Python's None is the value None, a pandas missing value (NaN / NaT) is  *)
(* the value NaN; neither is a text the program can read from a page.      *)
(***************************************************************************)
EXTENDS Integers, Sequences, FiniteSets, TLC

\* ------------------------------------------------------------- bounds
\* Largest number of pages of an uploaded document.
MaxPages == 2

\* ------------------------------------------------------- basic values
None == <<"None">>
NaN == <<"NaN">>

DigitChars == <<"0", "1", "2", "3", "4", "5", "6", "7", "8", "9">>
Digits == {DigitChars[i] : i \in 1..Len(DigitChars)}
Whitespace == {" ", "\t", "\n"}

IsDigit(s, i) == i >= 1 /\ i <= Len(s) /\ s[i] \in Digits
DigitVal(c) == (CHOOSE n \in 1..Len(DigitChars) : DigitChars[n] = c) - 1

RECURSIVE ToInt(_)
\* int() of a non-empty sequence of digits
ToInt(ds) ==
    IF ds = <<>> THEN 0
    ELSE 10 * ToInt(SubSeq(ds, 1, Len(ds) - 1)) + DigitVal(ds[Len(ds)])

AllDigits(s) == \A i \in 1..Len(s) : s[i] \in Digits

RECURSIVE RunLen(_, _, _)
\* length of the longest run of characters of `set` that starts at s[i]
RunLen(s, i, set) ==
    IF i <= Len(s) /\ s[i] \in set THEN 1 + RunLen(s, i + 1, set) ELSE 0

RECURSIVE Join(_, _)
\* sep.join(parts)
Join(sep, parts) ==
    IF parts = <<>> THEN <<>>
    ELSE IF Len(parts) = 1 THEN parts[1]
    ELSE parts[1] \o sep \o Join(sep, Tail(parts))

RECURSIVE SplitWords(_, _, _)
\* str.split(): the maximal runs of non-whitespace characters
SplitWords(s, i, cur) ==
    IF i > Len(s) THEN (IF cur = <<>> THEN <<>> ELSE <<cur>>)
    ELSE IF s[i] \in Whitespace
         THEN (IF cur = <<>> THEN <<>> ELSE <<cur>>) \o SplitWords(s, i + 1, <<>>)
         ELSE SplitWords(s, i + 1, Append(cur, s[i]))

RECURSIVE SplitOn(_, _, _, _)
\* str.split(ch): the pieces between occurrences of ch, empty pieces kept
SplitOn(s, ch, i, cur) ==
    IF i > Len(s) THEN <<cur>>
    ELSE IF s[i] = ch THEN <<cur>> \o SplitOn(s, ch, i + 1, <<>>)
         ELSE SplitOn(s, ch, i + 1, Append(cur, s[i]))

\* str.strip()
Strip(s) ==
    LET lead == RunLen(s, 1, Whitespace)
        keep == {i \in 1..Len(s) : s[i] \notin Whitespace}
        last == IF keep = {} THEN 0 ELSE CHOOSE i \in keep : \A j \in keep : j <= i
    IN  IF keep = {} THEN <<>> ELSE SubSeq(s, lead + 1, last)

\* `sub in s`
Contains(s, sub) ==
    \E i \in 1..(Len(s) - Len(sub) + 1) : SubSeq(s, i, i + Len(sub) - 1) = sub

\* bool(x) of a cell: None and '' are falsy
Truthy(x) == x # None /\ x # <<>>

\* clean_text: ' '.join(text.split()).strip(), '' for a falsy text
clean_text(text) ==
    IF Truthy(text) THEN Strip(Join(<<" ">>, SplitWords(text, 1, <<>>))) ELSE <<>>

\* --------------------------------------------------- regular expressions
\* Length of the match of \d{2}/\d{2}/\d{2,4} that starts at s[i], 0 if none.
DateLenAt(s, i) ==
    IF /\ IsDigit(s, i) /\ IsDigit(s, i + 1)
       /\ i + 2 <= Len(s) /\ s[i + 2] = "/"
       /\ IsDigit(s, i + 3) /\ IsDigit(s, i + 4)
       /\ i + 5 <= Len(s) /\ s[i + 5] = "/"
       /\ IsDigit(s, i + 6) /\ IsDigit(s, i + 7)
    THEN IF IsDigit(s, i + 8)
         THEN (IF IsDigit(s, i + 9) THEN 10 ELSE 9)
         ELSE 8
    ELSE 0

\* Length of the match of [\d,]+\.\d{2} that starts at s[i], 0 if none.
AmountLenAt(s, i) ==
    LET r == RunLen(s, i, Digits \cup {","})
    IN  IF /\ r >= 1
           /\ i + r <= Len(s) /\ s[i + r] = "."
           /\ IsDigit(s, i + r + 1) /\ IsDigit(s, i + r + 2)
        THEN r + 3
        ELSE 0

\* the least position of hits, 0 when there is none
FirstOf(hits) ==
    IF hits = {} THEN 0 ELSE CHOOSE i \in hits : \A j \in hits : i <= j

\* re.search(r'\d{2}/\d{2}/\d{2,4}', s): the start of the leftmost match,
\* 0 when there is none
DateSearch(s) == FirstOf({i \in 1..Len(s) : DateLenAt(s, i) > 0})

\* re.search(r'[\d,]+\.\d{2}', s): the start of the leftmost match
AmountSearch(s) == FirstOf({i \in 1..Len(s) : AmountLenAt(s, i) > 0})

\* .group(0) of the matches, None when there is no match
DateGroup(s) ==
    IF DateSearch(s) = 0 THEN None
    ELSE SubSeq(s, DateSearch(s), DateSearch(s) + DateLenAt(s, DateSearch(s)) - 1)

AmountGroup(s) ==
    IF AmountSearch(s) = 0 THEN None
    ELSE SubSeq(s, AmountSearch(s),
                AmountSearch(s) + AmountLenAt(s, AmountSearch(s)) - 1)

HasDate(s) == DateSearch(s) > 0

RECURSIVE SplitWide(_, _, _)
\* re.split(r'\s{2,}', s): the pieces between runs of two or more whitespace
SplitWide(s, i, cur) ==
    IF i > Len(s) THEN <<cur>>
    ELSE LET r == RunLen(s, i, Whitespace)
         IN  IF r >= 2 THEN <<cur>> \o SplitWide(s, i + r, <<>>)
             ELSE SplitWide(s, i + 1, Append(cur, s[i]))

Str_Date == <<"D", "a", "t", "e">>
Str_TransactionDetails ==
    <<"T", "r", "a", "n", "s", "a", "c", "t", "i", "o", "n", " ",
      "D", "e", "t", "a", "i", "l", "s">>

\* ----------------------------------------- extract_table_from_pdf, per page
\* The raw rows one text line contributes (lines 29-50): none or one.
ParseLine(raw) ==
    LET line == clean_text(raw)
    IN  IF line = <<>> \/ Contains(line, Str_Date)
                       \/ Contains(line, Str_TransactionDetails)
        THEN <<>>
        ELSE IF ~HasDate(line) THEN <<>>
        ELSE LET parts == SplitWide(line, 1, <<>>)
             IN  IF Len(parts) >= 2
                 THEN LET date == DateGroup(line)
                          found == AmountGroup(line)
                          amount == IF found # None THEN found ELSE <<>>
                          description ==
                              IF Len(parts) > 2
                              THEN Join(<<" ">>, SubSeq(parts, 2, Len(parts) - 1))
                              ELSE parts[2]
                      IN  << <<date, description, amount>> >>
                 ELSE <<>>

RECURSIVE Concat(_)
\* the concatenation of a sequence of sequences, in order
Concat(seqs) == IF seqs = <<>> THEN <<>> ELSE Head(seqs) \o Concat(Tail(seqs))

\* The raw rows of a page without tables, from its text (lines 25-50).
TextRows(text) ==
    LET lines == SplitOn(text, "\n", 1, <<>>)
    IN  Concat([n \in 1..Len(lines) |-> ParseLine(lines[n])])

\* cleaned_row of one table row (line 56): falsy cells are left out
CleanedRow(row) ==
    LET kept == SelectSeq(row, Truthy)
    IN  [j \in 1..Len(kept) |-> clean_text(kept[j])]

\* The raw rows one table row contributes (lines 54-60): none or one.
TableRow(row) ==
    LET cleaned_row == CleanedRow(row)
    IN  IF /\ cleaned_row # <<>>
           /\ \E j \in 1..Len(cleaned_row) : cleaned_row[j] # <<>>
           /\ \E j \in 1..Len(cleaned_row) : HasDate(cleaned_row[j])
        THEN <<cleaned_row>>
        ELSE <<>>

TableRows(table) == Concat([n \in 1..Len(table) |-> TableRow(table[n])])

\* The raw rows of a page with tables (lines 53-60).
TablesRows(tables) ==
    Concat([t \in 1..Len(tables) |-> TableRows(tables[t])])

\* page.extract_text(): the page's text. For a page without characters the
\* result depends on the installed pdfplumber: older releases return None,
\* later ones ''; the program pins no release, so either may happen.
extract_text(page) == IF page.chars = <<>> THEN {None, <<>>} ELSE {page.chars}

\* ------------------------------------- extract_table_from_pdf, lines 62-79
columns == <<"Date", "Description", "Amount">>

\* the widest row: the number of columns pd.DataFrame(all_data) gets
Width(rows) ==
    LET lens == {Len(rows[k]) : k \in 1..Len(rows)}
    IN  CHOOSE n \in lens : \A m \in lens : m <= n

\* The cell of column j of a raw row: pandas fills a row shorter than the
\* frame with None, the slice keeps the first len(columns) columns, and a
\* column the frame lacks is added holding ''.
Cell(row, j, width) ==
    IF j <= Len(row) THEN row[j] ELSE IF j <= width THEN None ELSE <<>>

\* The DataFrame of lines 67-78, a sequence of rows labelled by `columns`.
Frame(rows) ==
    [k \in 1..Len(rows) |->
        [Date |-> Cell(rows[k], 1, Width(rows)),
         Description |-> Cell(rows[k], 2, Width(rows)),
         Amount |-> Cell(rows[k], Len(columns), Width(rows))]]

\* the value of `df`: None, or a DataFrame with its rows
NoFrame == [isNone |-> TRUE, rows |-> <<>>]
DataFrame(rows) == [isNone |-> FALSE, rows |-> rows]

\* ------------------------------------------------ process_credit_card_bill
\* pandas.isna of a cell
isna(x) == x = None \/ x = NaN

RECURSIVE KeepAt(_, _, _)
\* the rows of df whose index is in keep, in order
KeepAt(df, keep, i) ==
    IF i > Len(df) THEN <<>>
    ELSE (IF i \in keep THEN <<df[i]>> ELSE <<>>) \o KeepAt(df, keep, i + 1)

\* df.dropna(how='all'), line 87
DropAllEmpty(df) ==
    KeepAt(df, {i \in 1..Len(df) :
                  ~(isna(df[i].Date) /\ isna(df[i].Description)
                                     /\ isna(df[i].Amount))}, 1)

\* df.drop_duplicates(), line 90: the first of equal rows is kept
DropDuplicates(df) ==
    KeepAt(df, {i \in 1..Len(df) : \A j \in 1..(i - 1) : df[j] # df[i]}, 1)

\* a Timestamp, NaT being the missing one
NaT == [nat |-> TRUE, y |-> 0, m |-> 0, d |-> 0]

IsLeap(y) == (y % 4 = 0 /\ y % 100 # 0) \/ y % 400 = 0

DaysInMonth(y, m) ==
    IF m = 2 THEN (IF IsLeap(y) THEN 29 ELSE 28)
    ELSE IF m \in {4, 6, 9, 11} THEN 30 ELSE 31

\* the Timestamp of day d, month m, year y given as digits; NaT when the
\* calendar has no such day
MakeDate(ds, ms, ys) ==
    LET d == ToInt(ds)
        m == ToInt(ms)
        y == ToInt(ys)
    IN  IF y >= 1 /\ m \in 1..12 /\ d >= 1 /\ d <= DaysInMonth(y, m)
        THEN [nat |-> FALSE, y |-> y, m |-> m, d |-> d]
        ELSE NaT

\* pd.to_datetime(x, format='%d/%m/%Y', errors='coerce'), line 94: the whole
\* text must be day/month/four-digit year. (Years of the input documents lie in
\* the range a Timestamp can hold.)
to_datetime(x) ==
    IF isna(x) THEN NaT
    ELSE LET parts == SplitOn(x, "/", 1, <<>>)
         IN  IF /\ Len(parts) = 3
                /\ \A k \in 1..3 : AllDigits(parts[k])
                /\ Len(parts[1]) \in {1, 2}
                /\ Len(parts[2]) \in {1, 2}
                /\ Len(parts[3]) = 4
             THEN MakeDate(parts[1], parts[2], parts[3])
             ELSE NaT

RECURSIVE IntDigits(_, _)
\* n written with `width` decimal digits, zero padded
IntDigits(n, width) ==
    IF width = 0 THEN <<>>
    ELSE IntDigits(n \div 10, width - 1) \o <<DigitChars[(n % 10) + 1]>>

\* .dt.strftime('%Y-%m-%d'), line 95: NaN for NaT
strftime(ts) ==
    IF ts.nat THEN NaN
    ELSE IntDigits(ts.y, 4) \o <<"-">> \o IntDigits(ts.m, 2)
                            \o <<"-">> \o IntDigits(ts.d, 2)

\* .replace('[\$,]', '', regex=True), line 100: text cells lose '$' and ','
ReplaceDollarComma(x) ==
    IF isna(x) THEN x ELSE SelectSeq(x, LAMBDA c : c \notin {"$", ","})

\* A number: num / 10^scale, with no trailing zero in the fraction, so that
\* equal numbers are equal values. NaNAmount is the missing number.
NaNAmount == [nan |-> TRUE, num |-> 0, scale |-> 0]

RECURSIVE Number(_, _)
Number(num, scale) ==
    IF scale > 0 /\ num % 10 = 0 THEN Number(num \div 10, scale - 1)
    ELSE [nan |-> FALSE, num |-> num, scale |-> scale]

\* The number a decimal literal denotes: an optional sign, digits, at most
\* one '.', at least one digit; NaNAmount for any other text.
ParseDecimal(x) ==
    LET signed == x # <<>> /\ x[1] \in {"+", "-"}
        body == IF signed THEN Tail(x) ELSE x
        parts == SplitOn(body, ".", 1, <<>>)
        whole == parts[1]
        frac == IF Len(parts) = 2 THEN parts[2] ELSE <<>>
        sign == IF signed /\ x[1] = "-" THEN -1 ELSE 1
    IN  IF /\ Len(parts) <= 2
           /\ AllDigits(whole) /\ AllDigits(frac)
           /\ Len(whole) + Len(frac) >= 1
        THEN Number(sign * ToInt(whole \o frac), Len(frac))
        ELSE NaNAmount

\* pd.to_numeric(x, errors='coerce'), line 101
to_numeric(x) == IF isna(x) THEN NaNAmount ELSE ParseDecimal(x)

\* lines 94-101: the Date and Amount columns coerced, row by row. With
\* errors='coerce' neither conversion raises, so the bare except of lines
\* 96-97 is never entered.
Coerce(df) ==
    [k \in 1..Len(df) |->
        [Date |-> strftime(to_datetime(df[k].Date)),
         Description |-> df[k].Description,
         Amount |-> to_numeric(ReplaceDollarComma(df[k].Amount))]]

\* A dropna that looks at the Date column only.
DropInvalidDateOnly(df) ==
    KeepAt(df, {i \in 1..Len(df) : df[i].Date # NaN}, 1)

\* df.dropna(subset=['Date', 'Amount']), line 104
DropInvalid(df) ==
    KeepAt(df, {i \in 1..Len(df) : df[i].Date # NaN /\ ~df[i].Amount.nan}, 1)

\* process_credit_card_bill(df), for a df that is not None
process_credit_card_bill(df) ==
    DropInvalid(Coerce(DropDuplicates(DropAllEmpty(df))))

\* ------------------------------------------------------------------ main
RECURSIVE Pow10(_)
Pow10(k) == IF k = 0 THEN 1 ELSE 10 * Pow10(k - 1)

RECURSIVE SumAt(_, _, _)
\* the sum of the amounts of rows i.. of df, in units of 10^-scale
SumAt(df, i, scale) ==
    IF i > Len(df) THEN 0
    ELSE df[i].Amount.num * Pow10(scale - df[i].Amount.scale)
         + SumAt(df, i + 1, scale)

\* df['Amount'].sum(), line 157
Sum(df) ==
    LET scales == {df[i].Amount.scale : i \in 1..Len(df)} \cup {0}
        scale == CHOOSE n \in scales : \A m \in scales : m <= n
    IN  Number(SumAt(df, 1, scale), scale)

\* the download attribute of the link get_download_link builds
get_download_link(format) ==
    IF format = "Excel" THEN "processed_bill.xlsx" ELSE "processed_bill.csv"

\* A test that forgets `not df.empty`.
HasDataNotNone(frame) == ~frame.isNone

\* line 143: the table is shown and offered for download
HasData(frame) == ~frame.isNone /\ frame.rows # <<>>

\* ------------------------------------------------------ input documents
\* The pages uploaded documents are made of. A page is what pdfplumber
\* reports of it: `tables`, the result of extract_tables() (a table is a
\* sequence of rows, a row a sequence of cells), and `chars`, its text.
RowHeader ==
    <<<<"D", "a", "t", "e">>, <<"D", "e", "t", "a", "i", "l", "s">>, <<"A", "m", "o", "u", "n", "t">>>>
RowGrocery ==
    <<<<"0", "1", "/", "0", "1", "/", "2", "0", "2", "4">>, <<"G", "r", "o", "c", "e", "r", "y">>, <<"5", "0", "0", ".", "0", "0">>>>
RowAmazon ==
    <<<<"1", "5", "/", "0", "3", "/", "2", "0", "2", "4">>, <<"A", "M", "A", "Z", "O", "N">>, <<"1", ",", "2", "5", "0", ".", "0", "0">>>>
RowAmazonDollar ==
    <<<<"1", "5", "/", "0", "3", "/", "2", "0", "2", "4">>, <<"A", "M", "A", "Z", "O", "N">>, <<"$", "1", "2", "5", "0", ".", "0", "0">>>>
RowShortYear ==
    <<<<"1", "5", "/", "0", "3", "/", "2", "4">>, <<"A">>, <<"5", "0", "0", ".", "0", "0">>>>
RowBadDate ==
    <<<<"3", "2", "/", "1", "3", "/", "2", "0", "2", "4">>, <<"A">>, <<"5", "0", "0", ".", "0", "0">>>>
RowNoDescription ==
    <<<<"1", "5", "/", "0", "3", "/", "2", "0", "2", "4">>, <<>>, <<"5", "0", "0", ".", "0", "0">>>>
RowRupees ==
    <<<<"1", "5", "/", "0", "3", "/", "2", "0", "2", "4">>, <<"A">>, <<"R", "s", ".", " ", "1", ",", "2", "3", "4", ".", "5", "6">>>>
RowRefund ==
    <<<<"1", "5", "/", "0", "3", "/", "2", "0", "2", "4">>, <<"A">>, <<"-", "5", "0", "0", ".", "0", "0">>>>
RowNoAmount ==
    <<<<"1", "5", "/", "0", "3", "/", "2", "0", "2", "4">>, <<"A">>, <<"a", "b", "c">>>>
RowReference ==
    <<<<"1", "5", "/", "0", "3", "/", "2", "0", "2", "4">>, <<"A">>, <<"R", "E", "F">>, <<"7", ".", "5", "0">>>>

DataRows ==
    {RowGrocery,
     RowAmazon,
     RowAmazonDollar,
     RowShortYear,
     RowBadDate,
     RowNoDescription,
     RowRupees,
     RowRefund,
     RowNoAmount,
     RowReference}

LineAmazon ==
    <<"1", "5", "/", "0", "3", "/", "2", "0", "2", "4", " ", " ", "A", "M",
      "A", "Z", "O", "N", " ", "P", "U", "R", "C", "H", "A", "S", "E", " ",
      " ", "1", ",", "2", "5", "0", ".", "0", "0">>
TextStatement ==
    <<"D", "a", "t", "e", " ", " ", "T", "r", "a", "n", "s", "a", "c", "t",
      "i", "o", "n", " ", "D", "e", "t", "a", "i", "l", "s", " ", " ", "A",
      "m", "o", "u", "n", "t", "\n", "1", "5", "/", "0", "3", "/", "2", "0",
      "2", "4", " ", " ", "A", "M", "A", "Z", "O", "N", " ", "P", "U", "R",
      "C", "H", "A", "S", "E", " ", " ", "1", ",", "2", "5", "0", ".", "0",
      "0">>
LineTwoAmounts ==
    <<"1", "2", ".", "5", "0", " ", "1", "5", "/", "0", "3", "/", "2", "0",
      "2", "4", " ", " ", "A", " ", " ", "3", ".", "0", "0">>
TextFooter == <<"P", "a", "g", "e", " ", "1">>

TablePage(tables) == [tables |-> tables, chars |-> <<>>]
TextPage(chars) == [tables |-> <<>>, chars |-> chars]

\* a page with neither tables nor text, as of a scanned document
BlankPage == TextPage(<<>>)

TablePages ==
    {TablePage(<< <<r>> >>) : r \in DataRows}
        \cup {TablePage(<< <<RowHeader, RowGrocery>> >>),
              TablePage(<< <<RowHeader>>, <<RowAmazon, RowAmazon>> >>)}

TextPages ==
    {TextPage(LineAmazon), TextPage(TextStatement), TextPage(LineTwoAmounts),
     TextPage(TextFooter), BlankPage}

Pages == TablePages \cup TextPages

\* the documents of one to MaxPages pages
Documents == UNION {[1..n -> Pages] : n \in 1..MaxPages}

\* ---------------------------------------------------------------- state
VARIABLES
    pc,               \* where main() stands
    doc,              \* uploaded_file: the pages of the uploaded document
    format_type,      \* the output format selected
    page_no,          \* the page the loop of extract_table_from_pdf is at
    all_data,         \* the raw rows extracted so far
    df,               \* main's df
    outcome,          \* which of main's branches reported the result
    link,             \* the download offered
    num_transactions, \* the summary statistics shown
    total_amount

vars ==
    <<pc, doc, format_type, page_no, all_data, df, outcome, link,
      num_transactions, total_amount>>

\* Nothing is uploaded yet: main() returns at line 134.
Init ==
    /\ pc = "idle"
    /\ doc = <<>>
    /\ format_type = "Excel"
    /\ page_no = 1
    /\ all_data = <<>>
    /\ df = NoFrame
    /\ outcome = "none"
    /\ link = "none"
    /\ num_transactions = 0
    /\ total_amount = NaNAmount

\* A document is uploaded and a format picked (lines 129-138). One run of
\* the script serves one upload; nothing is kept from one run to the next.
Upload ==
    /\ pc = "idle"
    /\ \E d \in Documents : doc' = d
    /\ \E f \in {"Excel", "CSV"} : format_type' = f
    /\ pc' = "extract"
    /\ page_no' = 1
    /\ all_data' = <<>>
    /\ df' = NoFrame
    /\ outcome' = "none"
    /\ link' = "none"
    /\ num_transactions' = 0
    /\ total_amount' = NaNAmount

\* One iteration of `for page in pdf.pages` (lines 19-60). None has no
\* split: line 26 raises, and the exception leaves extract_table_from_pdf.
ExtractPage ==
    /\ pc = "extract"
    /\ page_no <= Len(doc)
    /\ LET page == doc[page_no]
       IN  IF page.tables = <<>>
           THEN \E text \in extract_text(page) :
                    IF text = None
                    THEN /\ pc' = "except"
                         /\ UNCHANGED <<page_no, all_data>>
                    ELSE /\ all_data' = all_data \o TextRows(text)
                         /\ page_no' = page_no + 1
                         /\ pc' = pc
           ELSE /\ all_data' = all_data \o TablesRows(page.tables)
                /\ page_no' = page_no + 1
                /\ pc' = pc
    /\ UNCHANGED <<doc, format_type, df, outcome, link, num_transactions,
                   total_amount>>

\* The end of extract_table_from_pdf (lines 62-79) and main's test of its
\* result (line 140).
BuildFrame ==
    /\ pc = "extract"
    /\ page_no > Len(doc)
    /\ IF all_data = <<>>
       THEN df' = NoFrame /\ pc' = "report"
       ELSE df' = DataFrame(Frame(all_data)) /\ pc' = "process"
    /\ UNCHANGED <<doc, format_type, page_no, all_data, outcome, link,
                   num_transactions, total_amount>>

\* df = process_credit_card_bill(df), line 141
Process ==
    /\ pc = "process"
    /\ df' = DataFrame(process_credit_card_bill(df.rows))
    /\ pc' = "report"
    /\ UNCHANGED <<doc, format_type, page_no, all_data, outcome, link,
                   num_transactions, total_amount>>

\* Lines 140-162: the preview, the download link and the summary, or one of
\* the two messages.
Report ==
    /\ pc = "report"
    /\ IF HasData(df)
       THEN /\ outcome' = "Success"
            /\ link' = get_download_link(format_type)
            /\ num_transactions' = Len(df.rows)
            /\ total_amount' = Sum(df.rows)
       ELSE /\ outcome' = IF df.isNone THEN "NoTableFound" ELSE "AllRowsInvalid"
            /\ UNCHANGED <<link, num_transactions, total_amount>>
    /\ pc' = "done"
    /\ UNCHANGED <<doc, format_type, page_no, all_data, df>>

\* except Exception (lines 164-166): "Error processing file"
HandleException ==
    /\ pc = "except"
    /\ outcome' = "Error"
    /\ pc' = "done"
    /\ UNCHANGED <<doc, format_type, page_no, all_data, df, link,
                   num_transactions, total_amount>>

Next ==
    \/ Upload
    \/ ExtractPage
    \/ BuildFrame
    \/ Process
    \/ Report
    \/ HandleException

Spec == Init /\ [][Next]_vars

\* ------------------------------------------------------------ properties
\* The loop over the pages has finished: all_data is what was extracted.
ExtractionDone == pc # "idle" /\ page_no > Len(doc)

\* process_credit_card_bill has returned: df is the normalized table.
Normalized == pc \in {"report", "done"} /\ ~df.isNone

\* A date as strftime('%Y-%m-%d') writes it.
IsIsoDate(s) ==
    /\ Len(s) = 10
    /\ s[5] = "-" /\ s[8] = "-"
    /\ \A i \in {1, 2, 3, 4, 6, 7, 9, 10} : s[i] \in Digits

\* the raw rows whose Date and Amount cells both parse
ParseableRows ==
    {k \in 1..Len(all_data) :
        LET r == Frame(all_data)[k]
        IN  /\ ~to_datetime(r.Date).nat
            /\ ~to_numeric(ReplaceDollarComma(r.Amount)).nan}

\* the lines of the pages of d that have no tables
TextLines(d) ==
    UNION {{SplitOn(d[i].chars, "\n", 1, <<>>)[n] :
              n \in 1..Len(SplitOn(d[i].chars, "\n", 1, <<>>))} :
           i \in {j \in 1..Len(d) : d[j].tables = <<>>}}

\* the rows of the tables of d
TableRowsOf(d) ==
    UNION {UNION {{d[i].tables[t][n] : n \in 1..Len(d[i].tables[t])} :
                  t \in 1..Len(d[i].tables)} :
           i \in 1..Len(d)}

\* every page of d has a table or a text layer
ValidDocument(d) ==
    \A i \in 1..Len(d) : d[i].tables # <<>> \/ d[i].chars # <<>>

\* C1: every record of the table the normalizer returns has a date and an
\* amount: the date is a written-out calendar date, the amount a number,
\* and there are no more records than raw rows whose date and amount parse.
C1_RecordsHaveDateAndAmount ==
    Normalized =>
        /\ \A k \in 1..Len(df.rows) :
              /\ df.rows[k].Date # NaN
              /\ IsIsoDate(df.rows[k].Date)
              /\ ~df.rows[k].Amount.nan
        /\ Len(df.rows) <= Cardinality(ParseableRows)

\* C1 witness: rows with an unparseable date or amount were extracted and
\* dropped, and a record remains.
C1_Witness ==
    /\ pc = "done"
    /\ outcome = "Success"
    /\ Cardinality(ParseableRows) < Len(all_data)
    /\ Len(df.rows) >= 1

\* a line "DD/MM/YYYY description amount": a calendar date, a text, and a
\* decimal amount that ends the line
WellFormedLine(line) ==
    /\ DateLenAt(line, 1) = 10
    /\ ~to_datetime(SubSeq(line, 1, 10)).nat
    /\ \E a \in 12..Len(line) :
          /\ AmountLenAt(line, a) = Len(line) - a + 1
          /\ line[a - 1] \in Whitespace
          /\ line[11] \in Whitespace
          /\ Strip(SubSeq(line, 11, a - 1)) # <<>>

\* a table row [DD/MM/YYYY date, description, decimal amount]
WellFormedRow(row) ==
    /\ Len(row) = 3
    /\ \A j \in 1..3 : Truthy(row[j])
    /\ DateLenAt(row[1], 1) = 10 /\ Len(row[1]) = 10
    /\ ~to_datetime(row[1]).nat
    /\ AmountLenAt(row[3], 1) = Len(row[3])

HasWellFormedTransaction(d) ==
    \/ \E row \in TableRowsOf(d) : WellFormedRow(row)
    \/ \E line \in TextLines(d) : WellFormedLine(line)

\* C2: for a valid document with at least one well-formed transaction line,
\* in a table row or in a text line of a page without tables, the pipeline
\* returns a table with at least one record.
C2_WellFormedLineYieldsRecord ==
    (pc = "done" /\ ValidDocument(doc) /\ HasWellFormedTransaction(doc))
        => (outcome = "Success" /\ Len(df.rows) >= 1)

\* The first date token of a line and the first amount token after it.
DateStart(line) == DateSearch(line)
DateEnd(line) == DateStart(line) + DateLenAt(line, DateStart(line))
AmountStart(line) ==
    FirstOf({i \in DateEnd(line)..Len(line) : AmountLenAt(line, i) > 0})

\* a line with a date token and, after it, an amount token
IsTransactionLine(line) == DateStart(line) > 0 /\ AmountStart(line) > 0

DateToken(line) == SubSeq(line, DateStart(line), DateEnd(line) - 1)
AmountToken(line) ==
    SubSeq(line, AmountStart(line),
           AmountStart(line) + AmountLenAt(line, AmountStart(line)) - 1)

\* the three-field row the line parser is specified to yield for a line
LineRow(line) ==
    <<DateToken(line),
      Strip(SubSeq(line, DateEnd(line), AmountStart(line) - 1)),
      AmountToken(line)>>

\* C3: on a page without tables, a line with a date token followed by a
\* description and an amount token yields the raw row [date token, the
\* trimmed text between the two tokens, amount token].
C3_LineYieldsRow ==
    ExtractionDone =>
        \A line \in TextLines(doc) :
            IsTransactionLine(line) =>
                \E k \in 1..Len(all_data) : all_data[k] = LineRow(line)

\* The date of a text as the normalizer is specified to read it: DD/MM/YYYY
\* first, then DD/MM/YY (%y: 00-68 are 20xx, 69-99 are 19xx).
ParseDateBothFormats(x) ==
    IF ~to_datetime(x).nat THEN to_datetime(x)
    ELSE IF isna(x) THEN NaT
    ELSE LET parts == SplitOn(x, "/", 1, <<>>)
         IN  IF /\ Len(parts) = 3
                /\ \A k \in 1..3 : AllDigits(parts[k])
                /\ Len(parts[1]) \in {1, 2}
                /\ Len(parts[2]) \in {1, 2}
                /\ Len(parts[3]) = 2
             THEN MakeDate(parts[1], parts[2],
                           (IF ToInt(parts[3]) <= 68
                            THEN <<"2", "0">> ELSE <<"1", "9">>) \o parts[3])
             ELSE NaT

\* C4: a row whose date reads as DD/MM/YYYY or, failing that, as DD/MM/YY is
\* not dropped for its date: when its amount parses too, the returned table
\* has a record with that date.
C4_DateTriesBothFormats ==
    Normalized =>
        \A k \in 1..Len(all_data) :
            LET r == Frame(all_data)[k]
            IN  (/\ ~ParseDateBothFormats(r.Date).nat
                 /\ ~to_numeric(ReplaceDollarComma(r.Amount)).nan)
                => \E j \in 1..Len(df.rows) :
                      /\ df.rows[j].Date = strftime(ParseDateBothFormats(r.Date))
                      /\ df.rows[j].Description = r.Description

\* The amount of a text as the normalizer is specified to read it: every
\* character but the digits, one decimal point (the last) and a leading
\* minus sign is removed, and the rest is read as a decimal number.
ParseAmountStripped(x) ==
    IF isna(x) THEN NaNAmount
    ELSE LET kept == SelectSeq(x, LAMBDA c : c \in Digits \cup {".", "-"})
             dots == {i \in 1..Len(kept) : kept[i] = "."}
             keep == {i \in 1..Len(kept) :
                        \/ kept[i] \in Digits
                        \/ kept[i] = "-" /\ i = 1
                        \/ kept[i] = "." /\ \A j \in dots : j <= i}
         IN  ParseDecimal(KeepAt(kept, keep, 1))

\* C5: a row whose amount, stripped of everything but digits, a decimal
\* point and a leading minus sign, reads as a decimal number is not dropped
\* for its amount: when its date parses too, the returned table has a
\* record with that amount.
C5_AmountStripsOtherCharacters ==
    Normalized =>
        \A k \in 1..Len(all_data) :
            LET r == Frame(all_data)[k]
            IN  (/\ ~to_datetime(r.Date).nat
                 /\ ~ParseAmountStripped(r.Amount).nan)
                => \E j \in 1..Len(df.rows) :
                      /\ df.rows[j].Amount = ParseAmountStripped(r.Amount)
                      /\ df.rows[j].Date = strftime(to_datetime(r.Date))
                      /\ df.rows[j].Description = r.Description

\* C6: no two records of the returned table have the same date, description
\* and amount.
C6_NoDuplicateRecords ==
    Normalized =>
        \A i \in 1..Len(df.rows) : \A j \in 1..Len(df.rows) :
            i # j => df.rows[i] # df.rows[j]

\* a table row with a date in a cell, or a text line with a date token and
\* an amount token
HasCandidate(d) ==
    \/ \E row \in TableRowsOf(d) :
          \E j \in 1..Len(row) : Truthy(row[j]) /\ HasDate(row[j])
    \/ \E line \in TextLines(d) :
          HasDate(line) /\ AmountSearch(line) > 0

\* C7: a document none of whose pages has a transaction candidate ends in
\* NoTableFound, an empty result and not an error; a document whose
\* candidates all fail normalization ends in AllRowsInvalid.
C7_FailureOutcomeByStage ==
    pc = "done" =>
        /\ ~HasCandidate(doc) => outcome = "NoTableFound"
        /\ (all_data # <<>> /\ ~HasData(df)) => outcome = "AllRowsInvalid"

\* a table row [date, empty cell, amount] whose date and amount parse
EmptyDescriptionRow(row) ==
    /\ Len(row) = 3
    /\ ~Truthy(row[2])
    /\ ~to_datetime(row[1]).nat
    /\ ~to_numeric(ReplaceDollarComma(row[3])).nan

\* C8: a table row [date, empty cell, amount] whose date and amount parse
\* is kept, with its date in Date, an empty Description and its amount in
\* Amount.
C8_EmptyDescriptionKept ==
    Normalized =>
        \A row \in TableRowsOf(doc) :
            EmptyDescriptionRow(row) =>
                \E j \in 1..Len(df.rows) :
                    /\ df.rows[j].Date = strftime(to_datetime(row[1]))
                    /\ ~Truthy(df.rows[j].Description)
                    /\ df.rows[j].Amount
                           = to_numeric(ReplaceDollarComma(row[3]))

\* C9: a run ends in exactly one of the four outcomes; an exception raised
\* on the way is caught by the handler and never left unhandled; only a
\* finished run shows a result; the table, link and summary are shown only
\* on success, and then the table is not empty and each of its records has
\* a written-out date, a description and a number as amount.
C9_OneOutcomeNoPartialTable ==
    /\ pc \in {"idle", "extract", "process", "report", "except", "done"}
    /\ pc = "except" => ENABLED HandleException
    /\ pc = "done"
          => outcome \in {"Success", "NoTableFound", "AllRowsInvalid", "Error"}
    /\ pc # "done" => outcome = "none"
    /\ outcome # "Success" => link = "none" /\ num_transactions = 0
    /\ outcome = "Success" =>
          /\ ~df.isNone
          /\ Len(df.rows) >= 1
          /\ link # "none"
          /\ num_transactions = Len(df.rows)
          /\ \A k \in 1..Len(df.rows) :
                /\ IsIsoDate(df.rows[k].Date)
                /\ ~isna(df.rows[k].Description)
                /\ ~df.rows[k].Amount.nan

\* C9 witness: a run ended in success although some extracted rows did not
\* survive normalization, two or more records being exported.
C9_Witness ==
    /\ pc = "done"
    /\ outcome = "Success"
    /\ Len(df.rows) >= 2
    /\ Len(df.rows) < Len(all_data)

\* a line with more than one date-like or more than one amount-like text
HasSeveralTokens(line) ==
    \/ Cardinality({i \in 1..Len(line) : DateLenAt(line, i) > 0}) > 1
    \/ Cardinality({i \in 1..Len(line) : AmountLenAt(line, i) > 0}) > 1

\* C10: for a line with several date-like or amount-like texts, the row of
\* the line has the first date match as its date and the first amount match
\* that starts after that date as its amount.
C10_FirstDateFirstAmountAfter ==
    ExtractionDone =>
        \A line \in TextLines(doc) :
            (HasSeveralTokens(line) /\ IsTransactionLine(line)) =>
                \E k \in 1..Len(all_data) :
                    /\ Len(all_data[k]) = Len(columns)
                    /\ all_data[k][1] = DateToken(line)
                    /\ all_data[k][Len(columns)] = AmountToken(line)

====
